---- MODULE Spec2Model ----
(***************************************************************************)
(* shell(command, options): a dual-mode (synchronous / asynchronous)       *)
(* wrapper around child_process.execSync and child_process.spawn.          *)
(*                                                                         *)
(* Two source files are modelled:                                          *)
(*   "index" : src/src/index.ts       (options.prefix, options.stdio)      *)
(*   "part"  : src/unnamed/part_000   (options.transform, nopipe, silent)  *)
(*                                                                         *)
(* Text (a JavaScript string) is a sequence of one-character strings; the  *)
(* two non-ASCII characters of the model are the tokens "U+00E9" and       *)
(* "U+FFFD".  A Buffer is a sequence of bytes (integers).                  *)
(***************************************************************************)
EXTENDS Integers, Sequences, FiniteSets, TLC

(***************************************************************************)
(* Bounds of the model.                                                    *)
(***************************************************************************)
\* chunks a child emits on one stream during one invocation
MaxChunks == 2
\* length of the messages ShellError is tried on
MaxMessageLen == 3

(***************************************************************************)
(* JavaScript values: string | null, and truthiness.                       *)
(***************************************************************************)
Null == [null |-> TRUE, text |-> <<>>]
Str(t) == [null |-> FALSE, text |-> t]

NL == "\n"

\* `s && ...` on a string: the empty string is falsy
TruthyText(s) == s # <<>>

\* s.indexOf(c) >= 0
HasChar(s, c) == \E i \in 1..Len(s) : s[i] = c

\* s.includes(t)
Includes(s, t) ==
  \E i \in 0..(Len(s) - Len(t)) : SubSeq(s, i + 1, i + Len(t)) = t

\* s.split(sep) for a one-character separator: the segments between
\* occurrences of sep ("".split("\n") is [""])
RECURSIVE split(_, _)
split(s, sep) ==
  IF ~HasChar(s, sep)
    THEN <<s>>
    ELSE LET i == CHOOSE k \in 1..Len(s) :
                    s[k] = sep /\ \A j \in 1..(k - 1) : s[j] # sep
         IN <<SubSeq(s, 1, i - 1)>> \o split(SubSeq(s, i + 1, Len(s)), sep)

(***************************************************************************)
(* ShellError: message = message && message.split("\n")[0]; super(message) *)
(* The value is the message the error carries.                             *)
(***************************************************************************)
\* variant: the message is kept whole
ShellErrorWhole(message) == message

ShellError(message) ==
  IF TruthyText(message) THEN split(message, NL)[1] ELSE message

\* new ShellError(text): the error object; input records the constructor's
\* argument
NewShellError(text) == [message |-> ShellError(text), input |-> text]
NoError == [message |-> <<>>, input |-> <<>>]

(***************************************************************************)
(* Buffer.toString(): UTF-8 decoding.  Bytes below 128 are ASCII, a lead   *)
(* byte 0xC2..0xDF followed by a continuation byte 0x80..0xBF is one       *)
(* two-byte character, and any other byte decodes to U+FFFD.  The model's  *)
(* byte alphabet holds no three- or four-byte lead.                        *)
(***************************************************************************)
Ascii ==
  (10 :> NL) @@ (32 :> " ") @@ (62 :> ">") @@ (65 :> "A") @@ (97 :> "a")

IsLead2(b) == b >= 194 /\ b <= 223
IsCont(b) == b >= 128 /\ b <= 191

\* the two-byte characters of the model: code point (b1-192)*64 + (b2-128)
TwoByte(b1, b2) ==
  IF (b1 - 192) * 64 + (b2 - 128) = 233 THEN "U+00E9" ELSE "U+FFFD"

RECURSIVE bufferToString(_)
bufferToString(buffer) ==
  IF buffer = <<>> THEN <<>>
  ELSE IF buffer[1] < 128
    THEN <<Ascii[buffer[1]]>> \o bufferToString(Tail(buffer))
  ELSE IF IsLead2(buffer[1]) /\ Len(buffer) >= 2 /\ IsCont(buffer[2])
    THEN <<TwoByte(buffer[1], buffer[2])>>
           \o bufferToString(SubSeq(buffer, 3, Len(buffer)))
  ELSE <<"U+FFFD">> \o bufferToString(Tail(buffer))

\* A string written to a stream is encoded as UTF-8.
EncodeChar(c) ==
  IF c = "U+00E9" THEN <<195, 169>>
  ELSE IF c = "U+FFFD" THEN <<239, 191, 189>>
  ELSE <<CHOOSE b \in DOMAIN Ascii : Ascii[b] = c>>

RECURSIVE stringToBuffer(_)
stringToBuffer(s) ==
  IF s = <<>> THEN <<>> ELSE EncodeChar(s[1]) \o stringToBuffer(Tail(s))

(***************************************************************************)
(* The texts of the message templates.                                     *)
(***************************************************************************)
CommandFailedText ==
  <<"C", "o", "m", "m", "a", "n", "d", " ", "f", "a", "i", "l", "e", "d", ":", " ">>
WithExitCodeText ==
  <<" ", "w", "i", "t", "h", " ", "e", "x", "i", "t", " ", "c", "o", "d", "e", " ">>
FailedToStartText ==
  <<"F", "a", "i", "l", "e", "d", " ", "t", "o", " ", "s", "t", "a", "r", "t", " ",
    "c", "o", "m", "m", "a", "n", "d", ":", " ">>
SemicolonText ==
  <<";", " ">>
CommandTimeoutText ==
  <<"C", "o", "m", "m", "a", "n", "d", " ", "t", "i", "m", "e", "o", "u", "t", ":", " ">>
NullText ==
  <<"n", "u", "l", "l">>
DigitChars ==
  <<"0", "1", "2", "3", "4", "5", "6", "7", "8", "9">>

\* `${n}` for an integer n
RECURSIVE NatText(_)
NatText(n) ==
  IF n < 10 THEN <<DigitChars[n + 1]>>
  ELSE NatText(n \div 10) \o <<DigitChars[(n % 10) + 1]>>

IntText(n) == IF n < 0 THEN <<"-">> \o NatText(0 - n) ELSE NatText(n)

\* An exit code is a number, or null when the child was ended by a signal.
Code(n) == [null |-> FALSE, n |-> n]
NullCode == [null |-> TRUE, n |-> 0]

\* `${exitCode}`
ExitCodeText(exitCode) ==
  IF exitCode.null THEN NullText ELSE IntText(exitCode.n)

\* exitCode === 0
IsZero(exitCode) == ~exitCode.null /\ exitCode.n = 0

\* `Command failed: ${command} with exit code ${exitCode}`
\* variant: the exit code is left out of the message
CommandFailedNoCode(command, exitCode) == CommandFailedText \o command

CommandFailedMessage(command, exitCode) ==
  CommandFailedText \o command \o WithExitCodeText \o ExitCodeText(exitCode)

\* `Failed to start command: ${command}; ${error.toString()}`
FailedToStartMessage(command, errorText) ==
  FailedToStartText \o command \o SemicolonText \o errorText

\* `Command timeout: ${command}`
CommandTimeoutMessage(command) == CommandTimeoutText \o command

(***************************************************************************)
(* The caller's transform function (options.transform) and                 *)
(* transformString from ./transforms.  The model's callers pass either no  *)
(* transform or one that upper-cases the ASCII letters.                    *)
(***************************************************************************)
LowerLetters ==
  <<"a", "b", "c", "d", "e", "f", "g", "h", "i", "j", "k", "l", "m",
    "n", "o", "p", "q", "r", "s", "t", "u", "v", "w", "x", "y", "z">>
UpperLetters ==
  <<"A", "B", "C", "D", "E", "F", "G", "H", "I", "J", "K", "L", "M",
    "N", "O", "P", "Q", "R", "S", "T", "U", "V", "W", "X", "Y", "Z">>

UpperChar(c) ==
  IF \E i \in 1..Len(LowerLetters) : LowerLetters[i] = c
    THEN UpperLetters[CHOOSE i \in 1..Len(LowerLetters) : LowerLetters[i] = c]
    ELSE c

UpperAscii(s) == [i \in 1..Len(s) |-> UpperChar(s[i])]

\* options.transform is set
HasTransform(options) == options.transform # "none"

\* transformString(options.transform, text)
transformString(transform, text) ==
  IF transform = "upper" THEN UpperAscii(text) ELSE text

(***************************************************************************)
(* Options normalisation in shell().                                       *)
(***************************************************************************)
\* { ...base, ...over }: later keys win
Spread(base, over) ==
  [k \in (DOMAIN base) \cup (DOMAIN over) |->
     IF k \in DOMAIN over THEN over[k] ELSE base[k]]

ForceColorDefault == ("FORCE_COLOR" :> "1")

\* options.env || parentProcess.env   (an env object, even {}, is truthy)
EffectiveEnv(options, parentEnv) ==
  IF options.env.given THEN options.env.vars ELSE parentEnv

\* variant: the colour flag is spread last and always wins
NormalizeEnvForced(options, parentEnv) ==
  Spread(EffectiveEnv(options, parentEnv), ForceColorDefault)

\* env: { FORCE_COLOR: "1", ...(options.env || process.env) }
NormalizeEnv(options, parentEnv) ==
  Spread(ForceColorDefault, EffectiveEnv(options, parentEnv))

\* a stdio string stands for the same disposition on stdin, stdout, stderr
StdioArray(s) == <<s, s, s>>

\* index: stdio: options.stdio || "inherit"   ("" models an absent option)
NormalizeStdioIndex(options) ==
  IF options.stdio # "" THEN StdioArray(options.stdio) ELSE StdioArray("inherit")

\* part: nopipe ? (silent ? [inherit, ignore, ignore] : [inherit x 3])
\*              : [inherit, pipe, pipe]
NormalizeStdioPart(options) ==
  IF options.nopipe
    THEN IF options.silent
           THEN <<"inherit", "ignore", "ignore">>
           ELSE <<"inherit", "inherit", "inherit">>
    ELSE <<"inherit", "pipe", "pipe">>

\* normalizedOptions of shell()
Normalize(v, options, parentEnv) ==
  [env |-> NormalizeEnv(options, parentEnv),
   stdio |-> IF v = "index" THEN NormalizeStdioIndex(options)
                            ELSE NormalizeStdioPart(options)]

\* options.prefix is set (a non-empty string)
HasPrefix(options) == TruthyText(options.prefix)

\* the stdio shellAsync hands to spawn:
\*   index: (options.prefix && "pipe") || options.stdio ;  part: options.stdio
SpawnStdio(v, options, norm) ==
  IF v = "index" /\ HasPrefix(options) THEN StdioArray("pipe") ELSE norm.stdio

\* setupStdoutStderrStreams(options, asyncProcess).stdout of ./transforms:
\* the child's raw stdout, a stream (not null) exactly when stdout is piped
setupStdoutStderrStreams(options, norm) == norm.stdio[2] = "pipe"

\* `stdout` of shellAsync is a stream (not null): in index it is
\* asyncProcess.stdout, there exactly when stdout is piped
StdoutStream(v, options, norm) ==
  IF v = "index"
    THEN SpawnStdio(v, options, norm)[2] = "pipe"
    ELSE setupStdoutStderrStreams(options, norm)

(***************************************************************************)
(* The promise of shellAsync: resolve and reject act only while pending.   *)
(***************************************************************************)
Pending == [state |-> "pending", value |-> Null, error |-> NoError]

\* variant: a later resolve overwrites a settled promise
resolveOverwrite(p, value) ==
  [state |-> "resolved", value |-> value, error |-> NoError]

resolve(p, value) ==
  IF p.state = "pending"
    THEN [state |-> "resolved", value |-> value, error |-> NoError]
    ELSE p

\* variant: a later reject overwrites a settled promise
rejectOverwrite(p, error) ==
  [state |-> "rejected", value |-> Null, error |-> error]

reject(p, error) ==
  IF p.state = "pending"
    THEN [state |-> "rejected", value |-> Null, error |-> error]
    ELSE p

(***************************************************************************)
(* prefixTransformStream(prefix): chunk => `${prefix} ${chunk.toString()}` *)
(* pushed to the readable side, which encodes the string as UTF-8.         *)
(***************************************************************************)
prefixTransformStream(prefix, chunk) ==
  stringToBuffer(prefix \o <<" ">> \o bufferToString(chunk))

(***************************************************************************)
(* child_process.execSync as shellSync sees it.  An outcome o of running   *)
(* the command is an exit (status, bytes written to stdout and stderr) or  *)
(* a timeout.  execSync returns the captured stdout Buffer (null when      *)
(* stdout is not piped) on status 0 and throws otherwise: on a non-zero    *)
(* status `Command failed: ${command}` followed, when stderr was captured  *)
(* and is not empty, by a newline and the stderr text.                     *)
(***************************************************************************)
SpawnSyncTimeoutText ==
  <<"s", "p", "a", "w", "n", "S", "y", "n", "c", " ", "/", "b", "i", "n", "/",
    "s", "h", " ", "E", "T", "I", "M", "E", "D", "O", "U", "T">>

NullBuffer == [null |-> TRUE, bytes |-> <<>>]
Buffer(bytes) == [null |-> FALSE, bytes |-> bytes]

execSync(command, stdio, o) ==
  IF o.kind = "timeout"
    THEN [threw |-> TRUE, buffer |-> NullBuffer, message |-> SpawnSyncTimeoutText]
  ELSE IF o.status # 0
    THEN [threw |-> TRUE, buffer |-> NullBuffer,
          message |-> CommandFailedText \o command \o
                        (IF stdio[3] = "pipe" /\ o.stderr # <<>>
                           THEN <<NL>> \o bufferToString(o.stderr)
                           ELSE <<>>)]
  ELSE [threw |-> FALSE,
        buffer |-> IF stdio[2] = "pipe" THEN Buffer(o.stdout) ELSE NullBuffer,
        message |-> <<>>]

\* if (buffer): null is falsy, a Buffer object (even an empty one) is truthy
BufferTruthy(buffer) == ~buffer.null

Returned(value, echo) ==
  [kind |-> "returned", value |-> value, error |-> NoError, echo |-> echo]
Threw(error) ==
  [kind |-> "threw", value |-> Null, error |-> error, echo |-> <<>>]
NotCalled == [kind |-> "none", value |-> Null, error |-> NoError, echo |-> <<>>]

\* shellSync of index: what the call returns or throws, given what execSync did
shellSyncIndex(options, ex) ==
  IF ex.threw
    THEN Threw(NewShellError(ex.message))
  ELSE IF BufferTruthy(ex.buffer)
    THEN Returned(Str(bufferToString(ex.buffer.bytes)), <<>>)
  ELSE Returned(Null, <<>>)

\* variant: the transform is ignored
shellSyncPartNoTransform(options, ex) ==
  IF ex.threw
    THEN Threw(NewShellError(ex.message))
  ELSE IF BufferTruthy(ex.buffer)
    THEN Returned(Str(bufferToString(ex.buffer.bytes)),
                  IF ~options.silent
                    THEN <<stringToBuffer(bufferToString(ex.buffer.bytes))>>
                    ELSE <<>>)
  ELSE Returned(Null, <<>>)

\* shellSync of part: the transform is applied to the output and to the
\* error message; echo is what is written to parentProcess.stdout
shellSyncPart(options, ex) ==
  IF ex.threw
    THEN Threw(NewShellError(
           IF HasTransform(options)
             THEN transformString(options.transform, ex.message)
             ELSE ex.message))
  ELSE IF BufferTruthy(ex.buffer)
    THEN LET out == IF HasTransform(options)
                      THEN transformString(options.transform,
                                           bufferToString(ex.buffer.bytes))
                      ELSE bufferToString(ex.buffer.bytes)
         IN Returned(Str(out), IF ~options.silent THEN <<stringToBuffer(out)>> ELSE <<>>)
  ELSE Returned(Null, <<>>)

shellSync(v, options, ex) ==
  IF v = "index" THEN shellSyncIndex(options, ex) ELSE shellSyncPart(options, ex)

(***************************************************************************)
(* Inputs of the model.                                                    *)
(***************************************************************************)
Commands == { <<"l", "s">>, <<"a", NL, "b">> }

\* chunks of bytes a child writes: "a", the two bytes of U+00E9 together,
\* and the first of them alone (a chunk boundary inside the character)
Chunks == { <<97>>, <<195, 169>>, <<195>> }

\* chunks written to stderr
StderrChunks == { <<97>>, <<195>> }

ExitCodes == { Code(0), Code(12), NullCode }

\* error.toString() of the spawn error
SpawnErrorText ==
  <<"E", "r", "r", "o", "r", ":", " ", "s", "p", "a", "w", "n", " ", "/", "b",
    "i", "n", "/", "s", "h", " ", "E", "N", "O", "E", "N", "T">>

\* what a synchronous run of the command can do
ExecOutcomes(options) ==
  [kind : {"exit"}, status : {0, 12},
   stdout : { <<>>, <<97>>, <<195, 169>> }, stderr : { <<>>, <<97, 10, 97>> }]
  \cup (IF options.timeout
          THEN {[kind |-> "timeout", status |-> 0, stdout |-> <<>>, stderr |-> <<>>]}
          ELSE {})

NoEnv == [given |-> FALSE, vars |-> ("PATH" :> "/bin")]
GivenEnv(vars) == [given |-> TRUE, vars |-> vars]

\* options of index: async, timeout, prefix, stdio, env
OptionsIndex(envs) ==
  [async : BOOLEAN, timeout : BOOLEAN, prefix : { <<>>, <<">">> },
   stdio : {"", "pipe"}, nopipe : {FALSE}, silent : {FALSE},
   transform : {"none"}, env : envs]

\* options of part: async, timeout, nopipe, silent, transform, env
OptionsPart(envs) ==
  [async : BOOLEAN, timeout : BOOLEAN, prefix : { <<>> },
   stdio : {""}, nopipe : BOOLEAN, silent : BOOLEAN,
   transform : {"none", "upper"}, env : envs]

VARIABLES
  variant,        \* "index" or "part": the source file that runs
  command,        \* shell()'s command
  options,        \* shell()'s options
  parentEnv,      \* process.env / parentProcess.env
  pc,             \* "init", "async" (promise returned), "sync" (call over)
  normalized,     \* normalizedOptions: env and stdio
  promise,        \* the promise shellAsync returned
  output,         \* shellAsync's `output`
  closed,         \* the 'close' event has been emitted
  exitCode,       \* its exit code
  timer,          \* "none", "armed", "fired"
  kills,          \* asyncProcess.kill() calls: "alive" / "closed" at the call
  events,         \* the terminal events (error, close, timeout) in order
  received,       \* chunks the stdout 'data' listener got, in order
  stderrEmitted,  \* chunks the child wrote to stderr, in order
  stdoutPipe,     \* chunks written to the stdout prefix transform, not yet out
  stderrPipe,     \* the same for stderr
  parentStdout,   \* chunks written to the parent's stdout, in order
  parentStderr,   \* chunks written to the parent's stderr, in order
  exec,           \* what execSync did (synchronous mode)
  syncResult      \* what the synchronous call returned or threw

inputs == <<variant, command, options, parentEnv>>
asyncVars ==
  <<promise, output, closed, exitCode, timer, kills, events, received,
    stderrEmitted, stdoutPipe, stderrPipe, parentStderr>>
vars ==
  <<variant, command, options, parentEnv, pc, normalized, promise, output,
    closed, exitCode, timer, kills, events, received, stderrEmitted,
    stdoutPipe, stderrPipe, parentStdout, parentStderr, exec, syncResult>>

NoExec == [threw |-> FALSE, buffer |-> NullBuffer, message |-> <<>>]
NoOutcome == [kind |-> "none", status |-> 0, stdout |-> <<>>, stderr |-> <<>>]

InitWith(envs, parentEnvs) ==
  /\ variant \in {"index", "part"}
  /\ command \in Commands
  /\ options \in IF variant = "index" THEN OptionsIndex(envs) ELSE OptionsPart(envs)
  /\ parentEnv \in parentEnvs
  /\ pc = "init"
  /\ normalized = [env |-> <<>>, stdio |-> <<>>]
  /\ promise = Pending
  /\ output = Null
  /\ closed = FALSE
  /\ exitCode = NullCode
  /\ timer = "none"
  /\ kills = <<>>
  /\ events = <<>>
  /\ received = <<>>
  /\ stderrEmitted = <<>>
  /\ stdoutPipe = <<>>
  /\ stderrPipe = <<>>
  /\ parentStdout = <<>>
  /\ parentStderr = <<>>
  /\ exec = [outcome |-> NoOutcome, result |-> NoExec]
  /\ syncResult = NotCalled

Init == InitWith({NoEnv}, {("PATH" :> "/bin")})

(***************************************************************************)
(* The handlers shellAsync registers.                                      *)
(***************************************************************************)
\* asyncProcess.on("error", ...): reject(new ShellError(`Failed to start ...`))
OnError(p, cmd, errorText) ==
  reject(p, NewShellError(FailedToStartMessage(cmd, errorText)))

\* asyncProcess.on("close", ...): resolve(output) on exit code 0, else
\* reject(new ShellError(`Command failed: ...`))
OnClose(p, out, cmd, code) ==
  IF IsZero(code)
    THEN resolve(p, out)
    ELSE reject(p, NewShellError(CommandFailedMessage(cmd, code)))

\* variant: the chunks are accumulated
OnDataAccumulate(out, chunk) == Str(out.text \o bufferToString(chunk))

\* stdout.on("data", ...): output = buffer.toString()
OnData(out, chunk) == Str(bufferToString(chunk))

\* the setTimeout callback, after asyncProcess.kill():
\* reject(new ShellError(`Command timeout: ${command}`))
OnTimeout(p, cmd) == reject(p, NewShellError(CommandTimeoutMessage(cmd)))

\* the timer armed by `if (options.timeout) setTimeout(...)`; it is never
\* cleared, so it stays armed until it fires
ArmTimer(opts) == IF opts.timeout THEN "armed" ELSE "none"

\* variant: the listener sits on a stream that outlives 'close'
StdoutOpenAfterClose == StdoutStream(variant, options, normalized)

\* the child's stdout delivers 'data' only before the child's 'close'
StdoutOpen == StdoutStream(variant, options, normalized) /\ ~closed

\* index: asyncProcess.stdout/stderr are piped through a prefix transform
PrefixPiping == variant = "index" /\ HasPrefix(options)

(***************************************************************************)
(* Actions.                                                                *)
(***************************************************************************)
\* shell(command, options) with options.async falsy: normalise, shellSync
ShellSyncCall ==
  /\ pc = "init"
  /\ ~options.async
  /\ \E o \in ExecOutcomes(options) :
       LET norm == Normalize(variant, options, parentEnv)
           ex == execSync(command, norm.stdio, o)
           r == shellSync(variant, options, ex)
       IN /\ normalized' = norm
          /\ exec' = [outcome |-> o, result |-> ex]
          /\ syncResult' = r
          /\ parentStdout' = parentStdout \o r.echo
  /\ pc' = "sync"
  /\ UNCHANGED <<inputs, asyncVars>>

\* shell(command, options) with options.async: normalise, then shellAsync
\* spawns the child, registers the handlers and arms the timer
ShellAsyncCall ==
  /\ pc = "init"
  /\ options.async
  /\ normalized' = Normalize(variant, options, parentEnv)
  /\ promise' = Pending
  /\ output' = Null
  /\ timer' = ArmTimer(options)
  /\ pc' = "async"
  /\ UNCHANGED <<inputs, closed, exitCode, kills, events, received,
                 stderrEmitted, stdoutPipe, stderrPipe, parentStdout,
                 parentStderr, exec, syncResult>>

\* a 'data' event of the child's stdout
StdoutData(chunk) ==
  /\ pc = "async"
  /\ StdoutOpen
  /\ Len(received) < MaxChunks
  /\ output' = OnData(output, chunk)
  /\ received' = Append(received, chunk)
  /\ stdoutPipe' = IF PrefixPiping THEN Append(stdoutPipe, chunk) ELSE stdoutPipe
  /\ UNCHANGED <<inputs, pc, normalized, promise, closed, exitCode, timer,
                 kills, events, stderrEmitted, stderrPipe, parentStdout,
                 parentStderr, exec, syncResult>>

\* the child writes a chunk to stderr, which index pipes when prefixing
StderrData(chunk) ==
  /\ pc = "async"
  /\ PrefixPiping
  /\ ~closed
  /\ Len(stderrEmitted) < MaxChunks
  /\ stderrEmitted' = Append(stderrEmitted, chunk)
  /\ stderrPipe' = Append(stderrPipe, chunk)
  /\ UNCHANGED <<inputs, pc, normalized, promise, output, closed, exitCode,
                 timer, kills, events, received, stdoutPipe, parentStdout,
                 parentStderr, exec, syncResult>>

\* the stdout prefix transform handles its next chunk; the result goes to
\* process.stdout
ForwardStdout ==
  /\ pc = "async"
  /\ stdoutPipe # <<>>
  /\ parentStdout' =
       Append(parentStdout, prefixTransformStream(options.prefix, Head(stdoutPipe)))
  /\ stdoutPipe' = Tail(stdoutPipe)
  /\ UNCHANGED <<inputs, pc, normalized, promise, output, closed, exitCode,
                 timer, kills, events, received, stderrEmitted, stderrPipe,
                 parentStderr, exec, syncResult>>

\* the same for stderr and process.stderr
ForwardStderr ==
  /\ pc = "async"
  /\ stderrPipe # <<>>
  /\ parentStderr' =
       Append(parentStderr, prefixTransformStream(options.prefix, Head(stderrPipe)))
  /\ stderrPipe' = Tail(stderrPipe)
  /\ UNCHANGED <<inputs, pc, normalized, promise, output, closed, exitCode,
                 timer, kills, events, received, stderrEmitted, stdoutPipe,
                 parentStdout, exec, syncResult>>

\* the child's 'error' event (the spawn failed)
ProcessError ==
  /\ pc = "async"
  /\ ~closed
  /\ \A i \in 1..Len(events) : events[i] # "error"
  /\ promise' = OnError(promise, command, SpawnErrorText)
  /\ events' = Append(events, "error")
  /\ UNCHANGED <<inputs, pc, normalized, output, closed, exitCode, timer,
                 kills, received, stderrEmitted, stdoutPipe, stderrPipe,
                 parentStdout, parentStderr, exec, syncResult>>

\* the child's 'close' event
ProcessClose(code) ==
  /\ pc = "async"
  /\ ~closed
  /\ closed' = TRUE
  /\ exitCode' = code
  /\ promise' = OnClose(promise, output, command, code)
  /\ events' = Append(events, "close")
  /\ UNCHANGED <<inputs, pc, normalized, output, timer, kills, received,
                 stderrEmitted, stdoutPipe, stderrPipe, parentStdout,
                 parentStderr, exec, syncResult>>

\* the timer fires: asyncProcess.kill(), then reject
Timeout ==
  /\ pc = "async"
  /\ timer = "armed"
  /\ timer' = "fired"
  /\ kills' = Append(kills, IF closed THEN "closed" ELSE "alive")
  /\ promise' = OnTimeout(promise, command)
  /\ events' = Append(events, "timeout")
  /\ UNCHANGED <<inputs, pc, normalized, output, closed, exitCode, received,
                 stderrEmitted, stdoutPipe, stderrPipe, parentStdout,
                 parentStderr, exec, syncResult>>

Next ==
  \/ ShellSyncCall
  \/ ShellAsyncCall
  \/ \E chunk \in Chunks : StdoutData(chunk)
  \/ \E chunk \in StderrChunks : StderrData(chunk)
  \/ ForwardStdout
  \/ ForwardStderr
  \/ ProcessError
  \/ \E code \in ExitCodes : ProcessClose(code)
  \/ Timeout

Spec == Init /\ [][Next]_vars

(***************************************************************************)
(* The call of shell() alone, over a wider choice of environments.         *)
(***************************************************************************)
EnvChoices ==
  { NoEnv,
    GivenEnv(("HOME" :> "/root")),
    GivenEnv(("FORCE_COLOR" :> "0") @@ ("HOME" :> "/root")),
    GivenEnv(("FORCE_COLOR" :> "1") @@ ("PATH" :> "/usr/bin")) }

ParentEnvs ==
  { ("PATH" :> "/bin"), ("PATH" :> "/bin") @@ ("FORCE_COLOR" :> "0") }

InitEnv == InitWith(EnvChoices, ParentEnvs)

NextEnv ==
  \/ ShellSyncCall
  \/ ShellAsyncCall

SpecEnv == InitEnv /\ [][NextEnv]_vars

(***************************************************************************)
(* Properties.                                                             *)
(***************************************************************************)
Settled == promise.state # "pending"
FirstEvent(e) == events # <<>> /\ events[1] = e
Last(q) == q[Len(q)]

\* m is the part of text before its first newline (text itself when it has
\* none)
IsFirstLineOf(m, text) ==
  /\ ~HasChar(m, NL)
  /\ Len(m) <= Len(text)
  /\ SubSeq(text, 1, Len(m)) = m
  /\ Len(m) = Len(text) \/ text[Len(m) + 1] = NL

\* the errors shell() has thrown or rejected with
SurfacedErrors ==
  (IF promise.state = "rejected" THEN {promise.error} ELSE {})
  \cup (IF syncResult.kind = "threw" THEN {syncResult.error} ELSE {})

\* the messages ShellError is tried on: texts over "a" and newline
Messages ==
  UNION { [1..n -> {"a", NL}] : n \in 0..MaxMessageLen }

\* ShellError on every message of the bounded set
ShellErrorKeepsFirstLine ==
  \A m \in Messages : IsFirstLineOf(ShellError(m), m)

\* C5: every ShellError is single-line: for every message m the error's
\* message is the part of m before the first newline (m itself without a
\* newline, empty for the empty message), so every error shell() throws or
\* rejects with, in either mode, holds no newline.
C5_SingleLine ==
  /\ ShellErrorKeepsFirstLine
  /\ \A e \in SurfacedErrors :
       ~HasChar(e.message, NL) /\ IsFirstLineOf(e.message, e.input)

\* a multi-line command has failed and its error kept the first line only
C5_Witness ==
  /\ promise.state = "rejected"
  /\ HasChar(promise.error.input, NL)
  /\ promise.error.message # promise.error.input
  /\ promise.error.message # <<>>

\* the outcome the first terminal event dictates
OutcomeOfFirst ==
  IF events[1] = "error"
    THEN promise.state = "rejected"
         /\ promise.error.input = FailedToStartMessage(command, SpawnErrorText)
  ELSE IF events[1] = "timeout"
    THEN promise.state = "rejected"
         /\ promise.error.input = CommandTimeoutMessage(command)
  ELSE IF IsZero(exitCode)
    THEN promise.state = "resolved" /\ promise.value = output
  ELSE promise.state = "rejected"
       /\ promise.error.input = CommandFailedMessage(command, exitCode)

C8_Decided ==
  pc = "async" =>
    /\ Settled <=> events # <<>>
    /\ events # <<>> => OutcomeOfFirst
    /\ (closed \/ timer = "fired") => Settled

\* C8: an asynchronous invocation settles its promise exactly once: the
\* first of error / close / timeout to run fixes the outcome, no later event
\* changes it, and the promise is settled once the child has closed or the
\* timeout has fired.
C8_SettlesOnce ==
  /\ []C8_Decided
  /\ [][Settled => promise' = promise]_vars

\* all three terminal events have run, the close (with a failing code) last
C8_Witness ==
  /\ Len(events) = 3
  /\ events[3] = "close"
  /\ ~IsZero(exitCode)
  /\ promise.state = "rejected"

\* C9: the pending timeout callback is cancelled on normal completion: no
\* kill() is ever sent to a child that has already closed.
C9_NoKillAfterClose ==
  \A i \in 1..Len(kills) : kills[i] = "alive"

\* C10 as claimed: whichever event settled the promise, no stdout data
\* callback updates the captured output after the promise is settled.
C10_NoDataAfterSettle ==
  [][Settled => output' = output]_vars

\* C10, amended: a promise settled by the close event is settled after every
\* stdout data callback has run; no data callback updates the captured
\* output once close has settled it.
C10_NoDataAfterCloseSettle ==
  [][(Settled /\ FirstEvent("close")) => output' = output]_vars

\* close settled the promise after two chunks had been received
C10_Witness ==
  /\ FirstEvent("close")
  /\ Settled
  /\ Len(received) = 2

\* C3 as claimed: the timer firing before close kills the child and the
\* promise is, from then on, rejected with ShellError `Command timeout: ...`
C3_TimeoutBeforeClose ==
  (\E i \in 1..Len(kills) : kills[i] = "alive") =>
    /\ promise.state = "rejected"
    /\ promise.error = NewShellError(CommandTimeoutMessage(command))

\* C3, amended: when the timer fires before the close event and before any
\* error event, the child is killed and the promise is rejected with the
\* ShellError of `Command timeout: <command>`; a later close (any code) or
\* stdout data leaves it so.
C3_TimeoutFirst ==
  FirstEvent("timeout") =>
    /\ kills = <<"alive">>
    /\ promise.state = "rejected"
    /\ IsFirstLineOf(promise.error.message, CommandTimeoutText \o command)

\* the timeout came first, then data and a close with exit code 0
C3_Witness ==
  /\ FirstEvent("timeout")
  /\ closed
  /\ IsZero(exitCode)
  /\ received # <<>>
  /\ promise.state = "rejected"

\* the text of the last chunk the stdout listener received, or null
LastChunkText ==
  IF received = <<>> THEN Null ELSE Str(bufferToString(Last(received)))

\* options.transform applied to a text, where the running file has one
Transformed(text) ==
  IF variant = "part" /\ options.transform = "upper" THEN UpperAscii(text) ELSE text

SyncExit == pc = "sync" /\ exec.outcome.kind = "exit"

C2_NonZero ==
  /\ (pc = "async" /\ closed /\ ~exitCode.null /\ exitCode.n # 0) =>
       /\ promise.state = "rejected"
       /\ Includes(promise.error.message, IntText(exitCode.n))
       /\ Includes(promise.error.message, command)
  /\ (SyncExit /\ exec.outcome.status # 0) =>
       /\ syncResult.kind = "threw"
       /\ Includes(syncResult.error.message, IntText(exec.outcome.status))
       /\ Includes(syncResult.error.message, command)

\* C2, amended: when close with a non-zero (or null) code is the first
\* terminal event, the promise is rejected with the first line of
\* `Command failed: <command> with exit code <N>`, which contains N and the
\* command when the command has no newline; the synchronous runner throws
\* the first line of the (transformed) message of execSync's error, which
\* contains the command when it has no newline and no transform is set.
C2_NonZeroFirst ==
  /\ (pc = "async" /\ FirstEvent("close") /\ ~IsZero(exitCode)) =>
       /\ promise.state = "rejected"
       /\ IsFirstLineOf(promise.error.message,
                        CommandFailedText \o command \o WithExitCodeText
                          \o ExitCodeText(exitCode))
       /\ ~HasChar(command, NL) =>
            /\ Includes(promise.error.message, ExitCodeText(exitCode))
            /\ Includes(promise.error.message, command)
  /\ (SyncExit /\ exec.outcome.status # 0) =>
       /\ syncResult.kind = "threw"
       /\ IsFirstLineOf(syncResult.error.message,
                        Transformed(exec.result.message))
       /\ (~HasChar(command, NL) /\ Transformed(command) = command) =>
            Includes(syncResult.error.message, command)

\* a single-line command closed first with exit code 12
C2_Witness ==
  /\ FirstEvent("close")
  /\ exitCode = Code(12)
  /\ ~HasChar(command, NL)
  /\ promise.state = "rejected"

\* the text handed to ShellError by the first terminal event's handler
AsyncRawMessage ==
  IF events[1] = "error" THEN FailedToStartMessage(command, SpawnErrorText)
  ELSE IF events[1] = "timeout" THEN CommandTimeoutMessage(command)
  ELSE CommandFailedMessage(command, exitCode)

SyncTransformApplied ==
  /\ (syncResult.kind = "returned" /\ ~exec.result.buffer.null) =>
       syncResult.value =
         Str(UpperAscii(bufferToString(exec.result.buffer.bytes)))
  /\ syncResult.kind = "threw" =>
       IsFirstLineOf(syncResult.error.message, UpperAscii(exec.result.message))

\* C4 as claimed: with a transform set, in synchronous and in asynchronous
\* mode, the text returned / resolved is the transform of the captured
\* output and the error's message is derived from the transform of the
\* underlying message.
C4_TransformEverywhere ==
  HasTransform(options) =>
    /\ SyncTransformApplied
    /\ (pc = "async" /\ promise.state = "resolved" /\ received # <<>>) =>
         promise.value = Str(UpperAscii(bufferToString(Last(received))))
    /\ (pc = "async" /\ promise.state = "rejected") =>
         IsFirstLineOf(promise.error.message, UpperAscii(AsyncRawMessage))

\* C4, amended: with a transform set, the synchronous runner returns the
\* transform of the captured output and throws the first line of the
\* transform of the underlying message; the asynchronous runner resolves
\* with the untransformed last chunk and rejects with untransformed
\* messages.
C4_TransformSync ==
  HasTransform(options) =>
    /\ SyncTransformApplied
    /\ (pc = "async" /\ promise.state = "resolved") =>
         promise.value = output /\ (received # <<>> => output = LastChunkText)
    /\ (pc = "async" /\ promise.state = "rejected") =>
         IsFirstLineOf(promise.error.message, AsyncRawMessage)

\* a synchronous run with the upper-casing transform returned "A" for "a"
C4_Witness ==
  /\ HasTransform(options)
  /\ syncResult.kind = "returned"
  /\ exec.result.buffer = Buffer(<<97>>)
  /\ syncResult.value = Str(<<"A">>)

\* C6: with a prefix configured every chunk the child emits is forwarded
\* once, in order, to the parent's matching stream as `<prefix> ` followed
\* by the unmodified chunk.
C6_PrefixedUnmodified ==
  (pc = "async" /\ PrefixPiping) =>
    /\ Len(parentStdout) + Len(stdoutPipe) = Len(received)
    /\ Len(parentStderr) + Len(stderrPipe) = Len(stderrEmitted)
    /\ \A i \in 1..Len(parentStdout) :
         parentStdout[i] = stringToBuffer(options.prefix \o <<" ">>) \o received[i]
    /\ \A i \in 1..Len(parentStderr) :
         parentStderr[i] =
           stringToBuffer(options.prefix \o <<" ">>) \o stderrEmitted[i]

\* the environment options.env || parentProcess.env selects
ChosenEnv == IF options.env.given THEN options.env.vars ELSE parentEnv

\* C7 as claimed: the normalised env always has FORCE_COLOR = "1" and every
\* other caller-supplied variable keeps the caller's value.
C7_ForcedColor ==
  pc # "init" =>
    /\ normalized.env["FORCE_COLOR"] = "1"
    /\ options.env.given =>
         \A k \in (DOMAIN options.env.vars) \ {"FORCE_COLOR"} :
           normalized.env[k] = options.env.vars[k]

\* C7, amended: the normalised env is the caller's env (the parent's when
\* the caller gives none) with every variable unchanged, FORCE_COLOR
\* included; FORCE_COLOR = "1" is added only when that env has none.
C7_DefaultColor ==
  pc # "init" =>
    /\ DOMAIN normalized.env = (DOMAIN ChosenEnv) \cup {"FORCE_COLOR"}
    /\ \A k \in DOMAIN ChosenEnv : normalized.env[k] = ChosenEnv[k]
    /\ "FORCE_COLOR" \notin DOMAIN ChosenEnv => normalized.env["FORCE_COLOR"] = "1"

\* the caller passed FORCE_COLOR = "0" and the child gets "0"
C7_Witness ==
  /\ pc # "init"
  /\ options.env.given
  /\ "FORCE_COLOR" \in DOMAIN options.env.vars
  /\ options.env.vars["FORCE_COLOR"] = "0"
  /\ normalized.env["FORCE_COLOR"] = "0"
  /\ normalized.env["HOME"] = "/root"

====
